---------------------------- MODULE Spec2Model ----------------------------
(***************************************************************************)
(* CloudScribe server: the ScribeDB document cache (database.py), its       *)
(* periodic refresh job on the default AsyncProcessor (background.py) and   *)
(* the application lifespan (main.py).                                      *)
(*                                                                         *)
(* Callers are threads: two API callers (p1, p2) and the scheduler's worker *)
(* thread (job) that runs ScribeDB.live_reader.  Every step of a thread is  *)
(* one access to the shared state of ScribeDB (fragment.data, the remote    *)
(* document, _operational, _streamLock).                                    *)
(***************************************************************************)
EXTENDS Integers, Sequences, FiniteSets, TLC

(***************************************************************************)
(* Bounds of the model.                                                     *)
(***************************************************************************)
\* number of ScribeDB calls the API callers make in one run
MaxOps == 2
\* number of AsyncProcessors constructed in one run
MaxProcs == 3
\* the clock is followed for this many seconds
MaxTime == 135
\* jobs are submitted, and the scheduler paused or resumed, during the first
\* MaxCallTime seconds
MaxCallTime == 3
\* number of jobs submitted to the default processor in one run
MaxJobs == 1

UIds == {"u1", "u2"}
JIds == {"j1", "j2"}
NIds == {"n1", "n2"}
Procs == {"p1", "p2"}
Job == "job"
Threads == Procs \cup {Job}
\* names under which processors are registered
TNames == {"default", "worker"}

(***************************************************************************)
(* Python dicts keyed by id, as functions with a finite domain.             *)
(***************************************************************************)
EmptyMap == [k \in {} |-> 0]
Put(f, k, v) == [z \in (DOMAIN f) \cup {k} |-> IF z = k THEN v ELSE f[z]]
Del(f, k) == [z \in (DOMAIN f) \ {k} |-> f[z]]

\* The Document.  A missing "users"/"journals" key and an empty dict behave
\* alike in every method of ScribeDB (lines 162, 175, 205-209, 220, 291-295),
\* so both are the empty map.
EmptyDoc == [users |-> EmptyMap, journals |-> EmptyMap]

(***************************************************************************)
(* models.py: entities and their dict forms.                                *)
(***************************************************************************)
Note_to_dict(n) == [id |-> n.id, content |-> n.content, modified |-> n.modified]
Note_from_dict(d) == [id |-> d.id, content |-> d.content, modified |-> d.modified]

\* Journal.to_dict writes no "modified" key; Journal.from_dict reads none, so
\* the object's modified is the field default None.
Journal_to_dict(j) ==
    [id |-> j.id, authorID |-> j.authorID, title |-> j.title,
     notes |-> [i \in 1..Len(j.notes) |-> Note_to_dict(j.notes[i])]]
Journal_from_dict(d) ==
    [id |-> d.id, authorID |-> d.authorID, title |-> d.title,
     modified |-> "None",
     notes |-> [i \in 1..Len(d.notes) |-> Note_from_dict(d.notes[i])]]

User_to_dict(u) == [id |-> u.id, username |-> u.username, modified |-> u.modified]
User_from_dict(d) == [id |-> d.id, username |-> d.username, modified |-> d.modified]

MkNote(n, c) == [id |-> n, content |-> c, modified |-> "None"]
MkJournal(j, a, ns) ==
    [id |-> j, authorID |-> a, title |-> "t", modified |-> "None", notes |-> ns]
MkUser(u) == [id |-> u, username |-> u, modified |-> "None"]

NoJournal == MkJournal("", "", <<>>)

\* to_dict / from_dict of the entity of the given kind
ToDict(kind, obj) ==
    IF kind = "User" THEN User_to_dict(obj)
    ELSE IF kind = "Journal" THEN Journal_to_dict(obj)
    ELSE Note_to_dict(obj)

FromDict(kind, d) ==
    IF kind = "User" THEN User_from_dict(d)
    ELSE IF kind = "Journal" THEN Journal_from_dict(d)
    ELSE Note_from_dict(d)

\* update() of User (lines 36-46), Journal (102-113) and Note (152-166) with
\* one new value, for the username, the title or the content: a change sets
\* modified to the time of the call
Update(kind, obj, value) ==
    IF kind = "User" THEN
        IF value # obj.username
        THEN [obj EXCEPT !.username = value, !.modified = "now"] ELSE obj
    ELSE IF kind = "Journal" THEN
        IF value # obj.title
        THEN [obj EXCEPT !.title = value, !.modified = "now"] ELSE obj
    ELSE
        IF value # obj.content
        THEN [obj EXCEPT !.content = value, !.modified = "now"] ELSE obj

\* the entities whose dict forms are taken
Entities ==
    {[kind |-> "User", obj |-> MkUser(u)] : u \in UIds}
    \cup {[kind |-> "Note", obj |-> [MkNote(n, c) EXCEPT !.modified = m]] :
              n \in NIds, c \in {"c", "d"}, m \in {"None", "m0"}}
    \cup {[kind |-> "Journal", obj |-> MkJournal(j, a, ns)] :
              j \in JIds, a \in UIds,
              ns \in {<<>>, <<MkNote("n1", "c")>>,
                      <<[MkNote("n2", "d") EXCEPT !.modified = "m0"], MkNote("n1", "c")>>}}

NoEntity == [kind |-> "none", obj |-> <<>>]

\* a remote document that already holds two users with one journal each
SeedDoc ==
    [users |-> [u \in UIds |-> User_to_dict(MkUser(u))],
     journals |-> [j \in JIds |->
        Journal_to_dict(MkJournal(j, IF j = "j1" THEN "u1" ELSE "u2", <<>>))]]

InitialDocs == {EmptyDoc, SeedDoc}

\* arguments the callers pass
UserArgs == {MkUser(u) : u \in UIds}
NoteArgs == {MkNote(n, "c") : n \in NIds}
JournalArgs == {MkJournal(j, a, <<>>) : j \in JIds, a \in UIds}
EntriesArgs == {<<>>, <<MkNote("n1", "d")>>, <<MkNote("n1", "c"), MkNote("n1", "d")>>}
AuthorArgs == {"None", "u2"}
NoteJournals == {"j1"}
\* the Documents passed to write(): none, an empty one, one whose journal
\* holds two notes (in an order that is not that of their ids)
WriteArgs ==
    {<<>>, <<EmptyDoc>>,
     <<[users |-> Put(EmptyMap, "u1", User_to_dict(MkUser("u1"))),
        journals |-> Put(EmptyMap, "j1",
            Journal_to_dict(MkJournal("j1", "u1",
                                      <<MkNote("n2", "c"), MkNote("n1", "c")>>)))]>>}

\* the end-to-end scenario (spec, section 8): the calls its caller makes, in
\* this order, with alice = u1, J1 = j1, N1 = n1
Scenario ==
    <<"save_user", "save_journal", "save_note", "retrieve_note", "delete_user",
      "retrieve_journal">>

\* doc is the Document passed to write(): <<>> is None; username is the
\* username a request asks for: <<>> is None
NoArgs ==
    [user |-> "", jid |-> "", nid |-> "", authorID |-> "None", doc |-> <<>>,
     username |-> <<>>]

VARIABLES
    operational,       \* ScribeDB._operational
    fragment,          \* ScribeDB.fragment: "None" or "set"
    fragData,          \* ScribeDB.fragment.data, the local Document
    remote,            \* the Document held by the remote store
    credsFile,         \* credentials.json: "absent", "empty" ({}) or "valid"
    stream,            \* fragment.stream: "None", "connected", "disconnected"
    streamLock,        \* ScribeDB._streamLock: "free" or the holding thread
    mode,              \* DB_MODE: "HTTP" or "WS"
    tmData,            \* ThreadManager.data: name -> record of the processor
    defaultProcessor,  \* ThreadManager.defaultProcessor: a processor or None
    scheduler,         \* per AsyncProcessor constructed so far, the state of its
                       \* BackgroundScheduler: "running", "paused", "shutdown"
    jobs,              \* per AsyncProcessor, the jobs submitted to its scheduler
    now,               \* the clock, in seconds
    entity,            \* an entity object of models.py, with its kind
    wire,              \* its dict form once to_dict has run: <<>> or <<dict>>
    back,              \* the object from_dict makes of it: <<>> or <<object>>
    scenario,          \* the end-to-end scenario: whether its caller runs it, and
                       \* the outcomes of its calls the caller has taken so far
    tmRet,             \* how the last call of ThreadManager ended
    setupRet,          \* how the last setup() ended: "none", "True", "raise"
    th,                \* per thread: position and locals of the call in progress
    nOps,              \* ScribeDB calls made by the API callers so far
    disconnects,       \* calls of fragment.stream.disconnect() so far
    flushes,           \* writes of ScribeDBStreamLog.txt so far
    shutDown           \* shutdown() has been called on an operational cache

vars == <<operational, fragment, fragData, remote, credsFile, stream, streamLock,
          mode, tmData, defaultProcessor, scheduler, jobs, now, entity, wire, back,
          scenario, tmRet, setupRet,
          th, nOps, disconnects, flushes, shutDown>>

dbVars == <<operational, fragment, fragData, remote, credsFile, stream, streamLock,
            setupRet, disconnects, flushes, shutDown>>
modelVars == <<entity, wire, back>>
envVars == <<mode, now, modelVars, scenario>>
tmVars == <<tmData, defaultProcessor, scheduler, jobs, tmRet>>

\* An AsyncProcessor is named by the order of its construction (its id is a
\* fresh uuid, line 74); NoProcessor is None.
NoProcessor == 0
Processors == 1..Len(scheduler)

TMResult(call, name, kind, processor) ==
    [call |-> call, name |-> name, kind |-> kind, processor |-> processor]
NoTMCall == TMResult("none", "", "none", NoProcessor)

\* an entry of ThreadManager.data, lines 199-204 (without its time stamp)
ProcessorRecord(processor, name, source) ==
    [processor |-> processor, name |-> name, source |-> source]

(***************************************************************************)
(* background.py: Trigger and AsyncProcessor.addJob, with the scheduler of  *)
(* APScheduler that runs the jobs.  An optional value is <<>> (None) or     *)
(* <<v>>; times are seconds on the clock.                                   *)
(***************************************************************************)
\* Trigger.__init__, lines 31-37
Trigger(type, seconds, minutes, hours, triggerDate, customAPTrigger) ==
    [type |-> type,
     immediate |-> (seconds = <<>> /\ minutes = <<>> /\ hours = <<>>
                    /\ triggerDate = <<>>),
     seconds |-> IF seconds # <<>> THEN seconds[1] ELSE 0,
     minutes |-> IF minutes # <<>> THEN minutes[1] ELSE 0,
     hours |-> IF hours # <<>> THEN hours[1] ELSE 0,
     triggerDate |-> triggerDate,
     customAPTrigger |-> customAPTrigger]

\* DateTrigger(run_date=...): fires once, at run_date
DateTrigger(run_date) == [kind |-> "date", run_date |-> run_date, length |-> 0]

\* the 'interval' trigger of add_job (line 114): fires every seconds +
\* 60 minutes + 3600 hours (cumulatively, line 20); APScheduler turns an
\* interval of length 0 into one second
IntervalTrigger(seconds, minutes, hours) ==
    [kind |-> "interval", run_date |-> 0,
     length |-> IF seconds + 60 * minutes + 3600 * hours = 0 THEN 1
                ELSE seconds + 60 * minutes + 3600 * hours]

\* the run date of DateTrigger(run_date=triggerDate): the time of the call
\* when triggerDate is None
RunDateOf(triggerDate, time) == IF triggerDate = <<>> THEN time ELSE triggerDate[1]

\* (mutant) addJob that hands only the seconds to the interval trigger
APTriggerSecondsOnly(trigger, time) ==
    IF trigger.customAPTrigger # <<>> THEN trigger.customAPTrigger[1]
    ELSE IF trigger.immediate THEN DateTrigger(time)
    ELSE IF trigger.type = "date" THEN DateTrigger(RunDateOf(trigger.triggerDate, time))
    ELSE IntervalTrigger(trigger.seconds, 0, 0)

\* addJob, lines 104-114: the trigger the job is given to add_job with; a job
\* added with no trigger runs once, at the time of the call
APTriggerOf(trigger, time) ==
    IF trigger.customAPTrigger # <<>> THEN trigger.customAPTrigger[1]
    ELSE IF trigger.immediate THEN DateTrigger(time)
    ELSE IF trigger.type = "date" THEN DateTrigger(RunDateOf(trigger.triggerDate, time))
    ELSE IntervalTrigger(trigger.seconds, trigger.minutes, trigger.hours)

\* addJob, lines 106-117, after add_job has registered the job: the log
\* message of the 'date' branch is built with trigger.triggerDate.isoformat()
\* (line 112), an AttributeError when triggerDate is None; otherwise job.id
\* is returned
AddJobEnds(trigger) ==
    IF trigger.customAPTrigger = <<>> /\ ~trigger.immediate
       /\ trigger.type = "date" /\ trigger.triggerDate = <<>>
    THEN "raise" ELSE "id"

\* (mutant) add_job without misfire_grace_time=None: the scheduler's default
\* of one second applies
DefaultGraceTime == <<1>>

\* misfire_grace_time=None in every add_job call of addJob (lines 105-114)
MisfireGraceTime == <<>>

\* the job add_job registers at the given time: an interval job runs first
\* one interval after the call, a date job at its run_date
JobOf(func, trigger, time) ==
    [func |-> func, trigger |-> trigger, added |-> time,
     kind |-> APTriggerOf(trigger, time).kind,
     length |-> APTriggerOf(trigger, time).length,
     next |-> IF APTriggerOf(trigger, time).kind = "interval"
              THEN time + APTriggerOf(trigger, time).length
              ELSE APTriggerOf(trigger, time).run_date,
     pending |-> TRUE, runs |-> 0, late |-> FALSE,
     misfire_grace_time |-> MisfireGraceTime]

\* addJob on a processor whose jobs are js
AddJobIn(js, func, trigger, time) == Append(js, JobOf(func, trigger, time))

\* the run time the scheduler handles when it gets to a due job at the given
\* time: the latest one that has passed (run times that piled up are
\* coalesced into one)
RunTime(job, time) ==
    IF job.kind = "interval"
    THEN job.next + ((time - job.next) \div job.length) * job.length
    ELSE job.next

\* the run is dropped as a misfire: it is later than the grace time allows
Misfired(job, time) ==
    /\ job.misfire_grace_time # <<>>
    /\ time - RunTime(job, time) > job.misfire_grace_time[1]

\* the scheduler gets to a due job: the job runs unless misfired; an interval
\* job is scheduled for its next run time, a date job is finished
ProcessJob(job, time) ==
    [job EXCEPT !.runs = IF Misfired(job, time) THEN @ ELSE @ + 1,
                !.late = @ \/ job.next < time,
                !.next = IF job.kind = "interval"
                         THEN RunTime(job, time) + job.length ELSE @,
                !.pending = (job.kind = "interval")]

\* ScribeDB.setup, lines 106-109, with the default DB_REFRESH_INTERVAL
RefreshInterval == 30
RefreshTrigger == Trigger("interval", <<RefreshInterval>>, <<>>, <<>>, <<>>, <<>>)

\* the triggers the callers of addJob pass
TriggerArgs ==
    {Trigger("interval", <<>>, <<>>, <<>>, <<>>, <<>>),
     Trigger("interval", <<5>>, <<1>>, <<0>>, <<>>, <<>>),
     Trigger("interval", <<0>>, <<>>, <<>>, <<>>, <<>>),
     Trigger("interval", <<2>>, <<>>, <<>>, <<>>, <<>>),
     Trigger("date", <<>>, <<>>, <<>>, <<1>>, <<>>),
     Trigger("date", <<>>, <<>>, <<>>, <<>>, <<>>),
     Trigger("date", <<5>>, <<>>, <<>>, <<>>, <<>>),
     Trigger("interval", <<>>, <<>>, <<>>, <<>>, <<DateTrigger(0)>>)}

\* A thread between calls keeps how its last call ended: what it returned
\* (ret), the exception it raised (err), the number of exchanges with the
\* remote store it made (x), the object an accessor gave it (val) and
\* whether that object is part of the cached Document (live).
Idle(op, args, ret, err, x) ==
    [pc |-> "idle", op |-> op, args |-> args, data |-> EmptyDoc, jr |-> NoJournal,
     ret |-> ret, err |-> err, x |-> x, val |-> <<>>, live |-> FALSE]

ProcessStart ==
    /\ operational = FALSE
    /\ fragment = "None"
    /\ fragData = EmptyDoc
    /\ remote \in InitialDocs
    /\ credsFile \in {"absent", "valid"}
    /\ stream = "None"
    /\ streamLock = "free"
    /\ mode \in {"HTTP", "WS"}
    /\ tmData = EmptyMap
    /\ defaultProcessor = NoProcessor
    /\ scheduler = <<>>
    /\ jobs = <<>>
    /\ now = 0
    /\ tmRet = NoTMCall
    /\ setupRet = "none"
    /\ th = [t \in Threads |-> Idle("none", NoArgs, "none", "none", 0)]
    /\ nOps = 0
    /\ disconnects = 0
    /\ flushes = 0
    /\ shutDown = FALSE

\* no entity is under conversion
NoConversion == entity = NoEntity /\ wire = <<>> /\ back = <<>>

\* the callers are not bound to the end-to-end scenario
NoScenario == scenario = [on |-> FALSE, taken |-> <<>>]

\* the state of the process before lifespan runs
Init == ProcessStart /\ NoConversion /\ NoScenario

\* the state in which the application starts to serve requests: lifespan has
\* run ThreadManager.initDefault() and ScribeDB.setup() has returned True
Serving ==
    /\ operational = TRUE
    /\ fragment = "set"
    /\ remote = SeedDoc
    /\ fragData = remote
    /\ credsFile = "valid"
    /\ mode \in {"HTTP", "WS"}
    /\ stream = (IF mode = "WS" THEN "connected" ELSE "None")
    /\ streamLock = "free"
    /\ tmData = Put(EmptyMap, "default", ProcessorRecord(1, "default", "main.py"))
    /\ defaultProcessor = 1
    /\ scheduler = <<"running">>
    /\ jobs = <<AddJobIn(<<>>, "live_reader", RefreshTrigger, 0)>>
    /\ now = 0
    /\ tmRet = TMResult("initDefault", "default", "processor", 1)
    /\ setupRet = "True"
    /\ th = [t \in Threads |-> Idle("none", NoArgs, "none", "none", 0)]
    /\ nOps = 0
    /\ disconnects = 0
    /\ flushes = 0
    /\ shutDown = FALSE
    /\ NoConversion
    /\ NoScenario

(***************************************************************************)
(* ScribeDB: the parts of its methods that compute on a snapshot.           *)
(***************************************************************************)
isOperational == operational
connectionModeIsHTTP == mode = "HTTP"

derialized_users(data) == {User_from_dict(data.users[k]) : k \in DOMAIN data.users}
deserialized_journals(data) ==
    {Journal_from_dict(data.journals[k]) : k \in DOMAIN data.journals}

\* an accessor's result: <<>> is None, <<x>> is the object x
retrieve_user(data, user_id) ==
    LET found == {u \in derialized_users(data) : u.id = user_id}
    IN  IF found = {} THEN <<>> ELSE <<CHOOSE u \in found : TRUE>>

retrieve_journal(data, journal_id) ==
    LET found == {j \in deserialized_journals(data) : j.id = journal_id}
    IN  IF found = {} THEN <<>> ELSE <<CHOOSE j \in found : TRUE>>

\* (mutant) retrieve_journal_with_author without lines 254-255
RetrieveJournalAnyAuthor(data, journal_id, authorID) ==
    retrieve_journal(data, journal_id)

retrieve_journal_with_author(data, journal_id, authorID) ==
    LET journal == retrieve_journal(data, journal_id)
    IN  IF journal = <<>> THEN <<>>
        ELSE IF journal[1].authorID # authorID THEN <<>>
        ELSE journal

retrieve_note(data, journal_id, note_id) ==
    LET journal == retrieve_journal(data, journal_id)
    IN  IF journal = <<>> THEN <<>>
        ELSE LET hits == {i \in 1..Len(journal[1].notes) : journal[1].notes[i].id = note_id}
             IN  IF hits = {} THEN <<>>
                 ELSE <<journal[1].notes[CHOOSE i \in hits : \A k \in hits : i <= k]>>

retrieve_note_with_author(data, journal_id, note_id, authorID) ==
    LET journal == retrieve_journal_with_author(data, journal_id, authorID)
    IN  IF journal = <<>> THEN <<>>
        ELSE LET hits == {i \in 1..Len(journal[1].notes) : journal[1].notes[i].id = note_id}
             IN  IF hits = {} THEN <<>>
                 ELSE <<journal[1].notes[CHOOSE i \in hits : \A k \in hits : i <= k]>>

\* retrieve_user_by_username, lines 193-199
retrieve_user_by_username(data, username) ==
    LET found == {u \in derialized_users(data) : u.username = username}
    IN  IF found = {} THEN <<>> ELSE <<CHOOSE u \in found : TRUE>>

\* save_note / save_entries, line 319 and 337
LookupJournal(data, journal_id, authorID) ==
    IF authorID = "None" THEN retrieve_journal(data, journal_id)
    ELSE retrieve_journal_with_author(data, journal_id, authorID)

\* (mutant) save_note without lines 330-332: a note of a new id is not added
UpsertNoteReplaceOnly(notes, note) ==
    LET hits == {i \in 1..Len(notes) : notes[i].id = note.id}
    IN  IF hits = {} THEN notes
        ELSE [notes EXCEPT ![CHOOSE i \in hits : \A k \in hits : i <= k] = note]

\* save_note, lines 324-331: replace the first note of that id, else append
UpsertNote(notes, note) ==
    LET hits == {i \in 1..Len(notes) : notes[i].id = note.id}
    IN  IF hits = {} THEN Append(notes, note)
        ELSE [notes EXCEPT ![CHOOSE i \in hits : \A k \in hits : i <= k] = note]

\* save_user, lines 203-211
SaveUserData(data, user) ==
    [data EXCEPT !.users = Put(@, user.id, User_to_dict(user))]

\* (mutant) delete_user without lines 228-235: the journals are kept
DeleteUserNoCascade(data, user_id) ==
    [data EXCEPT !.users = Del(@, user_id)]

\* delete_user, lines 226-235: the user and every journal it authored
DeleteUserData(data, user_id) ==
    [users |-> Del(data.users, user_id),
     journals |-> [j \in {k \in DOMAIN data.journals :
                            data.journals[k].authorID # user_id} |-> data.journals[j]]]

\* (mutant) save_journal without the check of lines 286-287
AuthorNotChecked(data, journal) == TRUE

\* save_journal, line 286
AuthorExists(data, journal) ==
    journal.authorID \in {u.id : u \in derialized_users(data)}

\* save_journal, lines 289-297
SaveJournalData(data, journal) ==
    [data EXCEPT !.journals = Put(@, journal.id, Journal_to_dict(journal))]

\* delete_journal, line 312
DeleteJournalData(data, journal_id) ==
    [data EXCEPT !.journals = Del(@, journal_id)]

\* (mutant) live_reader without its try/except: the exception leaves the job
LiveReaderNoExcept(e) == "raise"

\* live_reader, lines 61-62: the exception is printed and the job returns None
LiveReaderExcept(e) == "None"

(***************************************************************************)
(* How a call ends.                                                         *)
(***************************************************************************)
Return(op, args, r, x) == Idle(op, args, r, "none", x)

Raise(op, args, e, x) ==
    IF op = "live_reader" THEN Idle(op, args, LiveReaderExcept(e), e, x)
    ELSE Idle(op, args, "raise", e, x)

\* read returns fragment.data (line 155): the caller holds that Document
ReturnDoc(op, args, r, x, doc) ==
    [Return(op, args, r, x) EXCEPT !.data = IF op = "read" THEN doc ELSE EmptyDoc]

\* (mutant) accessors that hand out the objects of the cached Document
SharesCacheNoCopy(op) == TRUE

\* deserialized_journals and derialized_users work on copy.deepcopy of
\* fragment.data (lines 159, 172) and from_dict makes new objects of it: the
\* object returned shares nothing with the cached Document
SharesCache(op) == FALSE

\* an accessor returns the object it made from its deep copy, or None
ReturnObject(op, args, v) ==
    [Return(op, args, IF v = <<>> THEN "None" ELSE "object", 0)
        EXCEPT !.val = v, !.live = (v # <<>> /\ SharesCache(op))]

\* refresh_local returns True, read returns fragment.data, live_reader None
RefreshRet(op) ==
    IF op = "read" THEN "data" ELSE IF op = "live_reader" THEN "None" ELSE "True"

(***************************************************************************)
(* CloudFragment (client.py), the remote store's client: a successful write *)
(* stores the given Document remotely and as fragment.data; a successful    *)
(* read pulls the remote Document into fragment.data; a new fragment holds  *)
(* an empty Document; an error answer changes nothing.                      *)
(***************************************************************************)
WrittenRemote(data) == data
WrittenLocal(data) == data
ReadLocal == remote
NewFragmentData == EmptyDoc

\* what an exchange over the stream can answer (TRUE is success): an error
\* when there is no connected stream
StreamAnswers == IF stream = "connected" THEN BOOLEAN ELSE {FALSE}

(***************************************************************************)
(* main.py lifespan and ThreadManager, as far as ScribeDB uses them.        *)
(***************************************************************************)
\* the state of ThreadManager and of the processors it has constructed
TM == [data |-> tmData, default |-> defaultProcessor, scheduler |-> scheduler,
       jobs |-> jobs]

SetTM(tm) ==
    /\ tmData' = tm.data
    /\ defaultProcessor' = tm.default
    /\ scheduler' = tm.scheduler
    /\ jobs' = tm.jobs

\* ThreadManager.list: the registered names
list == DOMAIN tmData

\* ThreadManager.info: <<>> is None
info(name) == IF name \in DOMAIN tmData THEN <<tmData[name]>> ELSE <<>>

getProcessorWithName(name) ==
    IF name \in DOMAIN tmData THEN tmData[name].processor ELSE NoProcessor

getProcessorWithID(id) ==
    IF \E threadName \in list : tmData[threadName].processor = id
    THEN id ELSE NoProcessor

\* (mutant) new without the test of line 195: the entry is replaced
NewOverwrites(tm, name, source, paused) ==
    [tm EXCEPT !.scheduler = Append(@, IF paused THEN "paused" ELSE "running"),
               !.jobs = Append(@, <<>>),
               !.data = Put(@, name,
                            ProcessorRecord(Len(tm.scheduler) + 1, name, source))]

\* ThreadManager.new, lines 195-204, with AsyncProcessor.__init__ (74-76):
\* the scheduler of the new processor is started, paused or not
NewIn(tm, name, source, paused) ==
    IF name \in DOMAIN tm.data THEN tm
    ELSE [tm EXCEPT !.scheduler = Append(@, IF paused THEN "paused" ELSE "running"),
                    !.jobs = Append(@, <<>>),
                    !.data = Put(@, name,
                                 ProcessorRecord(Len(tm.scheduler) + 1, name, source))]

\* (mutant) closeThread that shuts the scheduler down but keeps the default
\* pointer
CloseKeepsDefault(tm, name) ==
    IF name \notin DOMAIN tm.data THEN tm
    ELSE [tm EXCEPT !.scheduler[tm.data[name].processor] = "shutdown",
                    !.jobs[tm.data[name].processor] = <<>>,
                    !.data = Del(@, name)]

\* (mutant) closeThread without processor.shutdown() (line 239): the entry
\* is removed and the scheduler keeps running its jobs
CloseWithoutShutdown(tm, name) ==
    IF name \notin DOMAIN tm.data THEN tm
    ELSE [tm EXCEPT !.data = Del(@, name),
                    !.default = IF name = "default" THEN NoProcessor ELSE @]

\* ThreadManager.closeThread, lines 234-242; the scheduler's shutdown
\* discards its pending jobs
CloseIn(tm, name) ==
    IF name \notin DOMAIN tm.data THEN tm
    ELSE [tm EXCEPT !.scheduler[tm.data[name].processor] = "shutdown",
                    !.jobs[tm.data[name].processor] = <<>>,
                    !.data = Del(@, name),
                    !.default = IF name = "default" THEN NoProcessor ELSE @]

\* the loop of ThreadManager.shutdown, lines 250-251
RECURSIVE CloseEach(_, _)
CloseEach(tm, names) ==
    IF names = {} THEN tm
    ELSE LET thread == CHOOSE n \in names : TRUE
         IN  CloseEach(CloseIn(tm, thread), names \ {thread})

\* (mutant) shutdown that closes the default processor only
ShutdownDefaultOnly(tm) == CloseIn(tm, "default")

\* ThreadManager.shutdown, lines 250-253
ShutdownIn(tm) == [CloseEach(tm, DOMAIN tm.data) EXCEPT !.default = NoProcessor]

\* ThreadManager.new called by a user of the registry
new(name, source, paused) ==
    /\ (name \notin DOMAIN tmData) => Len(scheduler) < MaxProcs
    /\ SetTM(NewIn(TM, name, source, paused))
    /\ tmRet' = IF name \in DOMAIN tmData
                 THEN TMResult("new", name, "error", NoProcessor)
                 ELSE TMResult("new", name, "processor", Len(scheduler) + 1)
    /\ UNCHANGED <<dbVars, envVars, th, nOps>>

\* ThreadManager.initDefault, lines 186-190
InitDefault ==
    /\ IF "default" \in DOMAIN tmData
       THEN /\ UNCHANGED <<tmData, defaultProcessor, scheduler, jobs>>
            /\ tmRet' = TMResult("initDefault", "default", "raise", NoProcessor)
       ELSE /\ Len(scheduler) < MaxProcs
            /\ LET tm == NewIn(TM, "default", "main.py", FALSE)
               IN  SetTM([tm EXCEPT !.default = tm.data["default"].processor])
            /\ tmRet' = TMResult("initDefault", "default", "processor",
                                 Len(scheduler) + 1)
    /\ UNCHANGED <<dbVars, envVars, th, nOps>>

\* ThreadManager.closeThread; BackgroundScheduler.shutdown waits for the
\* running job
closeThread(name) ==
    /\ th[Job].pc = "idle"
    /\ SetTM(CloseIn(TM, name))
    /\ tmRet' = TMResult("closeThread", name,
                         IF getProcessorWithName(name) = NoProcessor
                         THEN "False" ELSE "True",
                         getProcessorWithName(name))
    /\ UNCHANGED <<dbVars, envVars, th, nOps>>

\* ThreadManager.shutdown
TMShutdown ==
    /\ th[Job].pc = "idle"
    /\ SetTM(ShutdownIn(TM))
    /\ tmRet' = TMResult("shutdown", "", "True", NoProcessor)
    /\ UNCHANGED <<dbVars, envVars, th, nOps>>

\* AsyncProcessor.pause and resume (lines 89-95) of a registered processor
pause(name) ==
    /\ name \in DOMAIN tmData
    /\ scheduler' = [scheduler EXCEPT ![tmData[name].processor] = "paused"]
    /\ tmRet' = TMResult("pause", name, "None", tmData[name].processor)
    /\ UNCHANGED <<tmData, defaultProcessor, jobs, dbVars, envVars, th, nOps>>

resume(name) ==
    /\ name \in DOMAIN tmData
    /\ scheduler' = [scheduler EXCEPT ![tmData[name].processor] = "running"]
    /\ tmRet' = TMResult("resume", name, "None", tmData[name].processor)
    /\ UNCHANGED <<tmData, defaultProcessor, jobs, dbVars, envVars, th, nOps>>

\* the registry and its users, from the start of the process
TMInit == Init /\ remote = SeedDoc /\ credsFile = "valid" /\ mode = "HTTP"

TMNext ==
    \/ InitDefault
    \/ \E name \in TNames, paused \in BOOLEAN : new(name, "example.py", paused)
    \/ \E name \in TNames : closeThread(name)
    \/ TMShutdown
    \/ \E name \in TNames : pause(name)
    \/ \E name \in TNames : resume(name)

TMSpec == TMInit /\ [][TMNext]_vars

(***************************************************************************)
(* The default processor, its jobs and the clock.                           *)
(***************************************************************************)
\* job i of processor p is due
Due(p, i) == jobs[p][i].pending /\ jobs[p][i].next <= now

\* AsyncProcessor.addJob (lines 97-117) on ThreadManager.defaultProcessor
addJob(func, trigger) ==
    /\ defaultProcessor # NoProcessor
    /\ now <= MaxCallTime
    /\ Len(jobs[defaultProcessor]) < MaxJobs
    /\ jobs' = [jobs EXCEPT ![defaultProcessor] = AddJobIn(@, func, trigger, now)]
    /\ tmRet' = TMResult("addJob", func, AddJobEnds(trigger), defaultProcessor)
    /\ UNCHANGED <<tmData, defaultProcessor, scheduler, dbVars, envVars, th, nOps>>

\* the scheduler thread of a running processor wakes at the next run time
\* of its jobs and handles a job that is due
Process(p, i) ==
    /\ scheduler[p] = "running"
    /\ Due(p, i)
    /\ jobs' = [jobs EXCEPT ![p][i] = ProcessJob(@, now)]
    /\ UNCHANGED <<tmData, defaultProcessor, scheduler, tmRet, dbVars, envVars,
                   th, nOps>>

\* a second passes; a running scheduler lets no run time of its jobs pass
Tick ==
    /\ now < MaxTime
    /\ \A p \in Processors :
          scheduler[p] = "running" => \A i \in 1..Len(jobs[p]) : ~Due(p, i)
    /\ now' = now + 1
    /\ UNCHANGED <<tmVars, dbVars, mode, modelVars, scenario, th, nOps>>

ClockNext ==
    \/ InitDefault
    \/ \E trigger \in TriggerArgs : addJob("work", trigger)
    \/ now <= MaxCallTime /\ pause("default")
    \/ now <= MaxCallTime /\ resume("default")
    \/ \E p \in Processors : \E i \in 1..Len(jobs[p]) : Process(p, i)
    \/ Tick

ClockSpec == TMInit /\ [][ClockNext]_vars

(***************************************************************************)
(* ScribeDB.setup, lines 65-111.  The answers of its collaborators are the  *)
(* inputs: the secret typed in is non-empty, fragment.request() succeeds,   *)
(* fragment.read() succeeds, fragment.initStream() succeeds.                *)
(***************************************************************************)
\* lines 66-94: the state when the credential phase ends; fresh says that a
\* new CloudFragment (with no stream yet) has replaced ScribeDB.fragment
SetupCreds(secretOk, requestOk, readOk) ==
    IF credsFile = "absent" THEN
        IF ~secretOk THEN
            [creds |-> "empty", frag |-> "set", fresh |-> TRUE, data |-> NewFragmentData, ok |-> FALSE]
        ELSE IF ~requestOk THEN
            [creds |-> "empty", frag |-> "set", fresh |-> TRUE, data |-> NewFragmentData, ok |-> FALSE]
        ELSE IF ~readOk THEN
            [creds |-> "empty", frag |-> "set", fresh |-> TRUE, data |-> NewFragmentData, ok |-> FALSE]
        ELSE
            [creds |-> "valid", frag |-> "set", fresh |-> TRUE, data |-> ReadLocal, ok |-> TRUE]
    ELSE IF credsFile = "empty" THEN
        \* initFragFromCreds: creds["apiKey"] raises KeyError
        [creds |-> "empty", frag |-> fragment, fresh |-> FALSE, data |-> fragData, ok |-> FALSE]
    ELSE IF ~readOk THEN
        [creds |-> "valid", frag |-> "set", fresh |-> TRUE, data |-> NewFragmentData, ok |-> FALSE]
    ELSE
        [creds |-> "valid", frag |-> "set", fresh |-> TRUE, data |-> ReadLocal, ok |-> TRUE]

\* line 96 comes before the stream is initialised and the job is scheduled
OperationalAfterSetup(credsOk, streamOk, jobOk) == operational \/ credsOk

setup(secretOk, requestOk, readOk, streamOk) ==
    LET c == SetupCreds(secretOk, requestOk, readOk)
        wantStream == ~connectionModeIsHTTP
        sOk == c.ok /\ (wantStream => streamOk)
        jOk == sOk /\ defaultProcessor # NoProcessor
    IN  /\ setupRet # "True"
        /\ \A t \in Threads : th[t].pc = "idle"
        /\ credsFile' = c.creds
        /\ fragment' = c.frag
        /\ fragData' = c.data
        /\ operational' = OperationalAfterSetup(c.ok, sOk, jOk)
        /\ stream' = IF c.ok /\ wantStream /\ streamOk THEN "connected"
                      ELSE IF c.fresh THEN "None" ELSE stream
        /\ jobs' = IF jOk
                    THEN [jobs EXCEPT ![defaultProcessor] =
                                 AddJobIn(@, "live_reader", RefreshTrigger, now)]
                    ELSE jobs
        /\ setupRet' = IF jOk THEN "True" ELSE "raise"
        /\ UNCHANGED <<remote, streamLock, disconnects, flushes, shutDown, envVars,
                       tmData, defaultProcessor, scheduler, tmRet, th, nOps>>

Setup == \E secretOk, requestOk, readOk, streamOk \in BOOLEAN :
            setup(secretOk, requestOk, readOk, streamOk)

(***************************************************************************)
(* ScribeDB.shutdown, lines 345-357.                                        *)
(***************************************************************************)
\* the flag after shutdown(): no line of shutdown assigns _operational
OperationalAfterShutdown == operational

\* lines 346-357
ShutdownBody(debugMode) ==
    /\ IF ~isOperational
       THEN UNCHANGED <<stream, disconnects, flushes, shutDown, operational>>
       ELSE /\ shutDown' = TRUE
            /\ operational' = OperationalAfterShutdown
            /\ IF ~connectionModeIsHTTP /\ stream # "None"
               THEN /\ stream' = "disconnected"
                    /\ disconnects' = disconnects + 1
                    /\ flushes' = IF debugMode THEN flushes + 1 ELSE flushes
               ELSE UNCHANGED <<stream, disconnects, flushes>>
    /\ UNCHANGED <<fragment, fragData, remote, credsFile, streamLock, setupRet,
                   envVars, tmVars, th>>

\* ScribeDB.shutdown called by a caller of the cache
shutdown(debugMode) ==
    /\ nOps < MaxOps
    /\ nOps' = nOps + 1
    /\ ShutdownBody(debugMode)

(***************************************************************************)
(* The calls of the API callers.  A call starts at its first access to the  *)
(* shared state; a thread in a call is at one of                            *)
(*   sj_check  before save_journal's author check (line 286)                *)
(*   sj_snap   before save_journal's snapshot (line 289)                    *)
(*   write     snapshot taken and mutated, before write() (line 132)        *)
(*   w_xchg    in write(), holding _streamLock, before writeWS (line 145)   *)
(*   w_settle  in write(), holding _streamLock, in time.sleep (line 148)    *)
(*   r_xchg    in refresh_local(), holding the lock, before readWS (124)    *)
(*   r_settle  in refresh_local(), holding the lock, in time.sleep (127)    *)
(***************************************************************************)
\* the calls the API callers make in one run: the calls of the end-to-end
\* scenario when its caller runs it
CallLimit == IF scenario.on THEN Len(Scenario) ELSE MaxOps

Begin(t) ==
    /\ t \in Procs
    /\ th[t].pc = "idle"
    /\ nOps < CallLimit
    /\ nOps' = nOps + 1

Goto(t, pc, op, args, data, jr, x) ==
    th' = [th EXCEPT ![t] = [pc |-> pc, op |-> op, args |-> args, data |-> data,
                             jr |-> jr, ret |-> "pending", err |-> "none", x |-> x,
                             val |-> <<>>, live |-> FALSE]]

Finish(t, rec) == th' = [th EXCEPT ![t] = rec]

\* what accessor op finds in Document data
Retrieved(data, op, args) ==
    CASE op = "retrieve_user" -> retrieve_user(data, args.user)
      [] op = "retrieve_journal" -> retrieve_journal(data, args.jid)
      [] op = "retrieve_journal_with_author" ->
            retrieve_journal_with_author(data, args.jid, args.authorID)
      [] op = "retrieve_note_with_author" ->
            retrieve_note_with_author(data, args.jid, args.nid, args.authorID)
      [] OTHER -> retrieve_note(data, args.jid, args.nid)

\* the accessors, lines 157-199 and 240-282: one deep copy of fragment.data
Accessor(t, op, args) ==
    /\ Begin(t)
    /\ IF fragment = "None"
       THEN Finish(t, Raise(op, args, "AttributeError", 0))
       ELSE Finish(t, ReturnObject(op, args, Retrieved(fragData, op, args)))
    /\ UNCHANGED <<dbVars, envVars, tmVars>>

\* the kind of entity accessor op returns
KindOf(op) ==
    IF op = "retrieve_user" THEN "User"
    ELSE IF op \in {"retrieve_journal", "retrieve_journal_with_author"} THEN "Journal"
    ELSE "Note"

\* Document data with the entity obj, got by accessor op, put where it was got
WithEntity(data, op, args, obj) ==
    IF KindOf(op) = "User" THEN SaveUserData(data, obj)
    ELSE IF KindOf(op) = "Journal" THEN SaveJournalData(data, obj)
    ELSE SaveJournalData(data, [retrieve_journal(data, args.jid)[1]
                                   EXCEPT !.notes = UpsertNote(@, obj)])

\* the caller changes the object an accessor returned to it, as update_user,
\* update_journal and update_journal_note of main.py do with update(info);
\* the cached Document changes with it only if the object is part of it
Modify(t, value) ==
    /\ t \in Procs
    /\ th[t].pc = "idle"
    /\ th[t].val # <<>>
    /\ th' = [th EXCEPT ![t].val = <<Update(KindOf(th[t].op), th[t].val[1], value)>>]
    /\ fragData' = IF th[t].live /\ Retrieved(fragData, th[t].op, th[t].args) # <<>>
                    THEN WithEntity(fragData, th[t].op, th[t].args,
                                    Update(KindOf(th[t].op), th[t].val[1], value))
                    ELSE fragData
    /\ UNCHANGED <<operational, fragment, remote, credsFile, stream, streamLock,
                   setupRet, disconnects, flushes, shutDown, envVars, tmVars, nOps>>

Access(t) ==
    \/ \E u \in UIds : Accessor(t, "retrieve_user", [NoArgs EXCEPT !.user = u])
    \/ \E j \in JIds : Accessor(t, "retrieve_journal", [NoArgs EXCEPT !.jid = j])
    \/ \E j \in JIds :
          Accessor(t, "retrieve_journal_with_author",
                   [NoArgs EXCEPT !.jid = j, !.authorID = "u1"])
    \/ \E j \in JIds :
          Accessor(t, "retrieve_note", [NoArgs EXCEPT !.jid = j, !.nid = "n1"])
    \/ Accessor(t, "retrieve_note_with_author",
                [NoArgs EXCEPT !.jid = "j1", !.nid = "n1", !.authorID = "u2"])

\* save_user, lines 202-211
save_user(t, user) ==
    LET args == [NoArgs EXCEPT !.user = user.id]
    IN  /\ Begin(t)
        /\ IF fragment = "None"
           THEN Finish(t, Raise("save_user", args, "AttributeError", 0))
           ELSE Goto(t, "write", "save_user", args, SaveUserData(fragData, user), NoJournal, 0)
        /\ UNCHANGED <<dbVars, envVars, tmVars>>

\* delete_user, lines 217-235
delete_user(t, user_id) ==
    LET args == [NoArgs EXCEPT !.user = user_id]
    IN  /\ Begin(t)
        /\ IF fragment = "None"
           THEN Finish(t, Raise("delete_user", args, "AttributeError", 0))
           ELSE IF user_id \notin DOMAIN fragData.users
           THEN Finish(t, Return("delete_user", args, "False", 0))
           ELSE Goto(t, "write", "delete_user", args, DeleteUserData(fragData, user_id), NoJournal, 0)
        /\ UNCHANGED <<dbVars, envVars, tmVars>>

\* delete_journal, lines 303-312
delete_journal(t, journal_id) ==
    LET args == [NoArgs EXCEPT !.jid = journal_id]
    IN  /\ Begin(t)
        /\ IF fragment = "None"
           THEN Finish(t, Raise("delete_journal", args, "AttributeError", 0))
           ELSE IF journal_id \notin DOMAIN fragData.journals
           THEN Finish(t, Return("delete_journal", args, "False", 0))
           ELSE Goto(t, "write", "delete_journal", args, DeleteJournalData(fragData, journal_id), NoJournal, 0)
        /\ UNCHANGED <<dbVars, envVars, tmVars>>

\* save_journal, lines 286-287: the author check, on its own deep copy
SaveJournalCheck(t, op, args, journal) ==
    IF fragment = "None"
    THEN Finish(t, Raise(op, args, "AttributeError", 0))
    ELSE IF ~AuthorExists(fragData, journal)
    THEN Finish(t, Raise(op, args, "ValidationError", 0))
    ELSE Goto(t, "sj_snap", op, args, EmptyDoc, journal, 0)

\* save_journal called by an API caller
save_journal(t, journal) ==
    /\ Begin(t)
    /\ SaveJournalCheck(t, "save_journal",
                        [NoArgs EXCEPT !.jid = journal.id, !.authorID = journal.authorID],
                        journal)
    /\ UNCHANGED <<dbVars, envVars, tmVars>>

\* save_journal called by save_note or save_entries (lines 327, 332, 342)
SaveJournalInner(t) ==
    /\ th[t].pc = "sj_check"
    /\ SaveJournalCheck(t, th[t].op, th[t].args, th[t].jr)
    /\ UNCHANGED <<dbVars, envVars, tmVars, nOps>>

\* save_journal, lines 289-297: the snapshot and the change to it
SaveJournalSnap(t) ==
    /\ th[t].pc = "sj_snap"
    /\ Goto(t, "write", th[t].op, th[t].args,
            SaveJournalData(fragData, th[t].jr), th[t].jr, 0)
    /\ UNCHANGED <<dbVars, envVars, tmVars, nOps>>

\* save_note, lines 319-331
save_note(t, note, journal_id, authorID) ==
    LET args == [NoArgs EXCEPT !.jid = journal_id, !.nid = note.id, !.authorID = authorID]
        journal == LookupJournal(fragData, journal_id, authorID)
    IN  /\ Begin(t)
        /\ IF fragment = "None"
           THEN Finish(t, Raise("save_note", args, "AttributeError", 0))
           ELSE IF journal = <<>>
           THEN Finish(t, Return("save_note", args, "False", 0))
           ELSE Goto(t, "sj_check", "save_note", args, EmptyDoc,
                     [journal[1] EXCEPT !.notes = UpsertNote(@, note)], 0)
        /\ UNCHANGED <<dbVars, envVars, tmVars>>

\* save_entries, lines 337-342
save_entries(t, journal_id, notes, authorID) ==
    LET args == [NoArgs EXCEPT !.jid = journal_id, !.authorID = authorID]
        journal == LookupJournal(fragData, journal_id, authorID)
    IN  /\ Begin(t)
        /\ IF fragment = "None"
           THEN Finish(t, Raise("save_entries", args, "AttributeError", 0))
           ELSE IF journal = <<>>
           THEN Finish(t, Return("save_entries", args, "False", 0))
           ELSE Goto(t, "sj_check", "save_entries", args, EmptyDoc,
                     [journal[1] EXCEPT !.notes = notes], 0)
        /\ UNCHANGED <<dbVars, envVars, tmVars>>

(***************************************************************************)
(* ScribeDB.write, lines 132-150, called by every mutator with its snapshot *)
(***************************************************************************)
\* (mutant) write that ignores its argument and sends fragment.data
DataToWriteLocal(data) == fragData

\* lines 135-136: the Document write sends; None (<<>>) is fragment.data
DataToWrite(data) == IF data = <<>> THEN fragData ELSE data[1]

\* (mutant) write that does not look at the answer of the store
WriteRejectedIgnored(op, args) == Return(op, args, "True", 1)

\* lines 141-142 and 146-147: an "ERROR..." answer raises the write error
WriteRejected(op, args) == Raise(op, args, "Transport", 1)

\* ScribeDB.write called by an API caller
Write(t, data) ==
    /\ Begin(t)
    /\ Goto(t, "write", "write", [NoArgs EXCEPT !.doc = data], DataToWrite(data),
            NoJournal, 0)
    /\ UNCHANGED <<dbVars, envVars, tmVars>>

\* lines 133-142, and line 144 in streaming mode (the lock is awaited)
write(t) ==
    /\ th[t].pc = "write"
    /\ IF ~isOperational THEN
            /\ Finish(t, Raise(th[t].op, th[t].args, "NotOperational", 0))
            /\ UNCHANGED <<fragData, remote, streamLock>>
       ELSE IF connectionModeIsHTTP THEN
            /\ UNCHANGED streamLock
            /\ \E ok \in BOOLEAN :
                 IF ok THEN /\ remote' = WrittenRemote(th[t].data)
                            /\ fragData' = WrittenLocal(th[t].data)
                            /\ Finish(t, Return(th[t].op, th[t].args, "True", 1))
                 ELSE /\ UNCHANGED <<remote, fragData>>
                      /\ Finish(t, WriteRejected(th[t].op, th[t].args))
       ELSE /\ streamLock = "free"
            /\ streamLock' = t
            /\ Goto(t, "w_xchg", th[t].op, th[t].args, th[t].data, th[t].jr, 0)
            /\ UNCHANGED <<fragData, remote>>
    /\ UNCHANGED <<operational, fragment, credsFile, stream, setupRet, disconnects,
                   flushes, shutDown, envVars, tmVars, nOps>>

\* lines 145-147: writeWS under the lock; an error leaves the with block
writeWS(t) ==
    /\ th[t].pc = "w_xchg"
    /\ \E ok \in StreamAnswers :
         IF ok THEN /\ remote' = WrittenRemote(th[t].data)
                    /\ fragData' = WrittenLocal(th[t].data)
                    /\ Goto(t, "w_settle", th[t].op, th[t].args, th[t].data, th[t].jr, 1)
                    /\ UNCHANGED streamLock
         ELSE /\ UNCHANGED <<remote, fragData>>
              /\ streamLock' = "free"
              /\ Finish(t, WriteRejected(th[t].op, th[t].args))
    /\ UNCHANGED <<operational, fragment, credsFile, stream, setupRet, disconnects,
                   flushes, shutDown, envVars, tmVars, nOps>>

\* lines 127 and 148: the sleep ends, the lock is released, True is returned
settle(t) ==
    /\ th[t].pc \in {"w_settle", "r_settle"}
    /\ streamLock' = "free"
    /\ Finish(t, ReturnDoc(th[t].op, th[t].args,
                           IF th[t].pc = "w_settle" THEN "True" ELSE RefreshRet(th[t].op),
                           th[t].x,
                           fragData))
    /\ UNCHANGED <<operational, fragment, fragData, remote, credsFile, stream, setupRet,
                   disconnects, flushes, shutDown, envVars, tmVars, nOps>>

(***************************************************************************)
(* ScribeDB.refresh_local, lines 114-129; read (153-155) and live_reader    *)
(* (58-62) call it.                                                         *)
(***************************************************************************)
\* lines 115-121, and line 123 in streaming mode (the lock is awaited)
refresh_local(t, op) ==
    /\ th[t].pc = "idle"
    /\ IF ~isOperational THEN
            /\ Finish(t, Raise(op, NoArgs, "NotOperational", 0))
            /\ UNCHANGED <<fragData, streamLock>>
       ELSE IF connectionModeIsHTTP THEN
            /\ UNCHANGED streamLock
            /\ \E ok \in BOOLEAN :
                 IF ok THEN /\ fragData' = ReadLocal
                            /\ Finish(t, ReturnDoc(op, NoArgs, RefreshRet(op), 1, ReadLocal))
                 ELSE /\ UNCHANGED fragData
                      /\ Finish(t, Raise(op, NoArgs, "Transport", 1))
       ELSE /\ streamLock = "free"
            /\ streamLock' = t
            /\ Goto(t, "r_xchg", op, NoArgs, EmptyDoc, NoJournal, 0)
            /\ UNCHANGED fragData
    /\ UNCHANGED <<operational, fragment, remote, credsFile, stream, setupRet,
                   disconnects, flushes, shutDown, envVars, tmVars>>

\* lines 124-126: readWS under the lock
readWS(t) ==
    /\ th[t].pc = "r_xchg"
    /\ \E ok \in StreamAnswers :
         IF ok THEN /\ fragData' = ReadLocal
                    /\ Goto(t, "r_settle", th[t].op, th[t].args, EmptyDoc, NoJournal, 1)
                    /\ UNCHANGED streamLock
         ELSE /\ UNCHANGED fragData
              /\ streamLock' = "free"
              /\ Finish(t, Raise(th[t].op, th[t].args, "Transport", 1))
    /\ UNCHANGED <<operational, fragment, remote, credsFile, stream, setupRet,
                   disconnects, flushes, shutDown, envVars, tmVars, nOps>>

\* refresh_local and read, called by an API caller
Refresh(t) ==
    /\ t \in Procs
    /\ nOps < MaxOps
    /\ nOps' = nOps + 1
    /\ \E op \in {"refresh_local", "read"} : refresh_local(t, op)

\* the interval job of setup (lines 106-109) can fire: the scheduler runs, the
\* job is registered and its previous run has ended
CanFire ==
    /\ \E p \in Processors :
          /\ scheduler[p] = "running"
          /\ \E i \in 1..Len(jobs[p]) :
                jobs[p][i].func = "live_reader" /\ jobs[p][i].pending
    /\ th[Job].pc = "idle"

\* the scheduler's thread runs live_reader
live_reader ==
    /\ CanFire
    /\ refresh_local(Job, "live_reader")
    /\ UNCHANGED nOps

(***************************************************************************)
(* The program while it serves requests: the API callers and the refresh    *)
(* job run concurrently.                                                    *)
(***************************************************************************)
Internal ==
    \/ \E t \in Procs : SaveJournalInner(t)
    \/ \E t \in Procs : SaveJournalSnap(t)
    \/ \E t \in Procs : write(t)
    \/ \E t \in Procs : writeWS(t)
    \/ \E t \in Threads : readWS(t)
    \/ \E t \in Threads : settle(t)

Calls(t) ==
    \/ Access(t)
    \/ Modify(t, "x")
    \/ Refresh(t)
    \/ \E data \in WriteArgs : Write(t, data)
    \/ \E u \in UserArgs : save_user(t, u)
    \/ \E u \in UIds : delete_user(t, u)
    \/ \E j \in JournalArgs : save_journal(t, j)
    \/ \E j \in JIds : delete_journal(t, j)
    \/ \E n \in NoteArgs, j \in NoteJournals, a \in AuthorArgs : save_note(t, n, j, a)
    \/ \E j \in NoteJournals, ns \in EntriesArgs, a \in AuthorArgs : save_entries(t, j, ns, a)

Next ==
    \/ live_reader
    \/ \E t \in Procs : Calls(t)
    \/ Internal

Spec == Serving /\ [][Next]_vars

(***************************************************************************)
(* The life cycle of the cache: Uninitialized, setup, calls of one caller,  *)
(* shutdown, in any order a caller of ScribeDB can produce.                 *)
(***************************************************************************)
LifeNext ==
    \/ InitDefault
    \/ TMShutdown
    \/ Setup
    \/ \E debugMode \in BOOLEAN : shutdown(debugMode)
    \/ live_reader
    \/ Calls("p1")
    \/ Internal

LifeSpec == Init /\ [][LifeNext]_vars

(***************************************************************************)
(* main.py lifespan, lines 13-19: the calls of the life cycle in the order  *)
(* lifespan makes them.  lifespan is the only caller of ThreadManager in    *)
(* the application, so what its calls have left tells where it is.          *)
(***************************************************************************)
\* the line of lifespan that runs next ("failed": setup has raised and the
\* application does not start; "done": lifespan has returned)
LifespanAt ==
    IF tmRet = NoTMCall THEN "initDefault"
    ELSE IF tmRet.call = "initDefault" /\ setupRet = "none" THEN "setup"
    ELSE IF setupRet = "raise" THEN "failed"
    ELSE IF tmRet.call = "initDefault" THEN "yield"
    ELSE IF ~shutDown THEN "shutdown"
    ELSE "done"

\* the process starts with its credentials file in place
LifespanInit == Init /\ remote = SeedDoc /\ credsFile = "valid"

LifespanNext ==
    \/ LifespanAt = "initDefault" /\ InitDefault
    \/ LifespanAt = "setup" /\ Setup
    \/ LifespanAt = "yield" /\ Calls("p1")
    \/ LifespanAt = "yield" /\ TMShutdown
    \/ LifespanAt = "shutdown" /\ nOps' = nOps
                               /\ \E debugMode \in BOOLEAN : ShutdownBody(debugMode)
    \/ live_reader
    \/ Internal

LifespanSpec == LifespanInit /\ [][LifespanNext]_vars

(***************************************************************************)
(* The mutators of users, journals and notes on their own, called           *)
(* concurrently by the API callers while the refresh job runs.              *)
(***************************************************************************)
MutatorsNext ==
    \/ \E t \in Procs, u \in UserArgs : save_user(t, u)
    \/ \E t \in Procs, j \in JournalArgs : save_journal(t, j)
    \/ \E t \in Procs, n \in NoteArgs, j \in NoteJournals : save_note(t, n, j, "None")
    \/ \E t \in Procs, u \in UIds : delete_user(t, u)
    \/ Internal
    \/ live_reader

MutatorsSpec == Serving /\ [][MutatorsNext]_vars

(***************************************************************************)
(* main.py: the requests that create and update users.                      *)
(***************************************************************************)
\* the attributes of class ScribeDB (database.py, lines 23-357)
ScribeDBAttributes ==
    {"credentialsFile", "fragment", "_operational", "_streamLock",
     "isOperational", "connectionModeIsHTTP", "saveFragCreds", "initFragFromCreds",
     "live_reader", "setup", "refresh_local", "write", "read",
     "deserialized_journals", "derialized_users", "retrieve_user",
     "retrieve_user_by_username", "save_user", "delete_user", "retrieve_journal",
     "retrieve_journal_with_author", "retrieve_note", "retrieve_note_with_author",
     "save_journal", "delete_journal", "save_note", "save_entries", "shutdown"}

\* main.py lines 37-39 and 118-120: how the check of the username ends.  The
\* handlers call ScribeDB.deserialized_users(), which raises AttributeError
\* when ScribeDB has no attribute of that name
UsernameCheck(data, username) ==
    IF "deserialized_users" \notin ScribeDBAttributes THEN "AttributeError"
    ELSE IF \E u \in derialized_users(data) : u.username = username THEN "409"
    ELSE "free"

\* the ids uuid4().hex gives to new users (line 42)
NewUIds == {"u3", "u4"}
\* the usernames the requests ask for
UsernameArgs == {"u1", "u2", "bob"}

\* create_user, lines 36-49
create_user(t, username) ==
    LET args == [NoArgs EXCEPT !.username = <<username>>]
    IN  /\ Begin(t)
        /\ IF UsernameCheck(fragData, username) = "AttributeError"
           THEN Finish(t, Raise("create_user", args, "AttributeError", 0))
           ELSE IF fragment = "None"
           THEN Finish(t, Raise("create_user", args, "AttributeError", 0))
           ELSE IF UsernameCheck(fragData, username) = "409"
           THEN Finish(t, Raise("create_user", args, "409", 0))
           ELSE \E id \in NewUIds \ DOMAIN fragData.users :
                   Goto(t, "write", "create_user", args,
                        SaveUserData(fragData, [MkUser(id) EXCEPT !.username = username]),
                        NoJournal, 0)
        /\ UNCHANGED <<dbVars, envVars, tmVars>>

\* User.update (models.py 36-46) with the UserUpdate of the request: the
\* username and the keyphrase given, when they differ from the user's; a
\* keyphrase given is a new one
UserUpdated(user, username, keyphrase) ==
    LET named == username # <<>> /\ username # <<user.username>>
    IN  [user EXCEPT !.username = IF named THEN username[1] ELSE @,
                     !.modified = IF named \/ keyphrase THEN "now" ELSE @]

\* update_user, lines 116-125, for the user the request's headers name
\* (dependencies.py, lines 6-15)
update_user(t, login, username, keyphrase) ==
    LET args == [NoArgs EXCEPT !.user = login, !.username = username]
        user == IF fragment = "None" THEN <<>>
                ELSE retrieve_user_by_username(fragData, login)
        renames == username # <<>> /\ user # <<>> /\ <<user[1].username>> # username
    IN  /\ Begin(t)
        /\ IF fragment = "None"
           THEN Finish(t, Raise("update_user", args, "AttributeError", 0))
           ELSE IF user = <<>>
           THEN Finish(t, Raise("update_user", args, "401", 0))
           ELSE IF renames /\ UsernameCheck(fragData, username[1]) # "free"
           THEN Finish(t, Raise("update_user", args,
                                UsernameCheck(fragData, username[1]), 0))
           ELSE IF UserUpdated(user[1], username, keyphrase) = user[1]
           THEN Finish(t, Return("update_user", args, "UserInfo", 0))
           ELSE Goto(t, "write", "update_user", args,
                     SaveUserData(fragData, UserUpdated(user[1], username, keyphrase)),
                     NoJournal, 0)
        /\ UNCHANGED <<dbVars, envVars, tmVars>>

\* the requests, concurrent with each other and with the refresh job
RequestsNext ==
    \/ \E t \in Procs, username \in UsernameArgs : create_user(t, username)
    \/ \E t \in Procs, login \in UIds,
          username \in {<<>>} \cup {<<n>> : n \in UsernameArgs},
          keyphrase \in BOOLEAN : update_user(t, login, username, keyphrase)
    \/ \E t \in Procs : write(t)
    \/ \E t \in Procs : writeWS(t)
    \/ \E t \in Threads : settle(t)
    \/ live_reader
    \/ readWS(Job)

RequestsSpec == Serving /\ [][RequestsNext]_vars

(***************************************************************************)
(* The end-to-end scenario: one caller makes the calls of Scenario one      *)
(* after the other on a serving cache, taking the outcome of each call      *)
(* before it makes the next, while the refresh job runs.                    *)
(***************************************************************************)
ScenarioInit ==
    /\ operational = TRUE
    /\ fragment = "set"
    /\ remote \in InitialDocs
    /\ fragData = remote
    /\ credsFile = "valid"
    /\ mode \in {"HTTP", "WS"}
    /\ stream = (IF mode = "WS" THEN "connected" ELSE "None")
    /\ streamLock = "free"
    /\ tmData = Put(EmptyMap, "default", ProcessorRecord(1, "default", "main.py"))
    /\ defaultProcessor = 1
    /\ scheduler = <<"running">>
    /\ jobs = <<AddJobIn(<<>>, "live_reader", RefreshTrigger, 0)>>
    /\ now = 0
    /\ tmRet = TMResult("initDefault", "default", "processor", 1)
    /\ setupRet = "True"
    /\ th = [t \in Threads |-> Idle("none", NoArgs, "none", "none", 0)]
    /\ nOps = 0
    /\ disconnects = 0
    /\ flushes = 0
    /\ shutDown = FALSE
    /\ NoConversion
    /\ scenario = [on |-> TRUE, taken |-> <<>>]

\* the caller has taken the outcome of every call it has made
Taken == Len(scenario.taken) = nOps

\* the next call of the scenario is op
NextCall(op) == Taken /\ nOps < Len(Scenario) /\ Scenario[nOps + 1] = op

\* the caller makes the next call of the scenario
ScenarioCall(t) ==
    \/ NextCall("save_user") /\ save_user(t, MkUser("u1"))
    \/ NextCall("save_journal") /\ save_journal(t, MkJournal("j1", "u1", <<>>))
    \/ NextCall("save_note") /\ save_note(t, MkNote("n1", "c"), "j1", "None")
    \/ /\ NextCall("retrieve_note")
       /\ Accessor(t, "retrieve_note", [NoArgs EXCEPT !.jid = "j1", !.nid = "n1"])
    \/ NextCall("delete_user") /\ delete_user(t, "u1")
    \/ /\ NextCall("retrieve_journal")
       /\ Accessor(t, "retrieve_journal", [NoArgs EXCEPT !.jid = "j1"])

\* the call has ended: the caller takes what it returned or raised
Take(t) ==
    /\ ~Taken
    /\ th[t].pc = "idle"
    /\ scenario' = [scenario EXCEPT !.taken =
                       Append(@, [op |-> th[t].op, ret |-> th[t].ret, val |-> th[t].val])]
    /\ UNCHANGED <<dbVars, tmVars, mode, now, modelVars, th, nOps>>

ScenarioNext ==
    \/ live_reader
    \/ ScenarioCall("p1")
    \/ Take("p1")
    \/ SaveJournalInner("p1")
    \/ SaveJournalSnap("p1")
    \/ write("p1")
    \/ writeWS("p1")
    \/ readWS(Job)
    \/ \E t \in {"p1", Job} : settle(t)

ScenarioSpec == ScenarioInit /\ [][ScenarioNext]_vars

(***************************************************************************)
(* models.py on its own: an entity is updated, turned into its dict form    *)
(* and made from that dict again, as the handlers of main.py do around      *)
(* save_user, save_journal, save_note and the retrieve_ methods.            *)
(***************************************************************************)
ModelsInit ==
    /\ ProcessStart
    /\ remote = SeedDoc /\ credsFile = "valid" /\ mode = "HTTP"
    /\ entity \in Entities
    /\ wire = <<>>
    /\ back = <<>>
    /\ NoScenario

update(value) ==
    /\ wire = <<>>
    /\ entity' = [entity EXCEPT !.obj = Update(entity.kind, @, value)]
    /\ UNCHANGED <<wire, back, dbVars, tmVars, mode, now, scenario, th, nOps>>

to_dict ==
    /\ wire = <<>>
    /\ wire' = <<ToDict(entity.kind, entity.obj)>>
    /\ UNCHANGED <<entity, back, dbVars, tmVars, mode, now, scenario, th, nOps>>

from_dict ==
    /\ wire # <<>>
    /\ back = <<>>
    /\ back' = <<FromDict(entity.kind, wire[1])>>
    /\ UNCHANGED <<entity, wire, dbVars, tmVars, mode, now, scenario, th, nOps>>

ModelsNext ==
    \/ \E value \in {"t", "t2", "c"} : update(value)
    \/ to_dict
    \/ from_dict

ModelsSpec == ModelsInit /\ [][ModelsNext]_vars

(***************************************************************************)
(* Properties.                                                              *)
(***************************************************************************)
\* thread t is between the deep copy it will write and the end of write()
InFlight(t) == th[t].pc \in {"write", "w_xchg", "w_settle"}

\* the ids of the notes of journal j of document d
NoteIdsOf(d, j) == {d.journals[j].notes[i].id : i \in 1..Len(d.journals[j].notes)}

\* this step ends a call of thread t (a step of an idle caller that starts no
\* call is the caller changing an object it holds)
Ends(t) ==
    /\ th'[t].pc = "idle"
    /\ th'[t] # th[t]
    /\ (t \in Procs /\ th[t].pc = "idle") => nOps' = nOps + 1

\* this step is the remote read of a refresh_local run by thread t
RefreshReads(t) ==
    /\ th[t].pc \in {"idle", "r_xchg"}
    /\ th'[t] # th[t]
    /\ th'[t].op \in {"refresh_local", "read", "live_reader"}
    /\ th'[t].x = 1

\* C1: when the only calls made are one save_note per caller, on distinct
\* note ids and the same journal, and both have returned True, the Document
\* holds both notes in that journal.
C1_NoLostUpdate ==
    \A j \in JIds :
        ( /\ nOps = Cardinality(Procs)
          /\ \A t \in Procs : /\ th[t].pc = "idle"
                              /\ th[t].op = "save_note"
                              /\ th[t].args.jid = j
                              /\ th[t].ret = "True"
          /\ \A t, u \in Procs : t # u => th[t].args.nid # th[u].args.nid )
        => /\ j \in DOMAIN fragData.journals
           /\ \A t \in Procs : th[t].args.nid \in NoteIdsOf(fragData, j)

\* C2: at most one mutator is between its snapshot and the end of its write.
C2_AtMostOneWriter == Cardinality({t \in Threads : InFlight(t)}) <= 1

\* C3: no refresh_local performs its remote read while a mutator is between
\* its snapshot and the end of its write.
C3_RefreshNotDuringWrite ==
    [][\A t \in Threads : RefreshReads(t) => ~\E u \in Threads \ {t} : InFlight(u)]_vars

\* C4: save_journal (called directly, or by save_note / save_entries) on a
\* journal whose authorID is the id of no user of the current Document raises,
\* makes no exchange with the remote store and leaves the local and the
\* remote Document unchanged.
C4_UnknownAuthorRejected ==
    [][\A t \in Procs :
         LET direct == /\ th[t].pc = "idle"
                       /\ th'[t] # th[t]
                       /\ th'[t].op = "save_journal"
                       /\ th'[t].args.authorID \notin
                             {fragData.users[k].id : k \in DOMAIN fragData.users}
             inner == /\ th[t].pc = "sj_check"
                      /\ th'[t] # th[t]
                      /\ th[t].jr.authorID \notin
                             {fragData.users[k].id : k \in DOMAIN fragData.users}
         IN  (direct \/ inner) =>
                /\ th'[t].pc = "idle"
                /\ th'[t].ret = "raise"
                /\ th'[t].err = "ValidationError"
                /\ th'[t].x = 0
                /\ fragData' = fragData
                /\ remote' = remote]_vars

C4_Witness ==
    \E t \in Procs : /\ th[t].pc = "idle"
                     /\ th[t].op = "save_journal"
                     /\ th[t].err = "ValidationError"
                     /\ th[t].args.authorID \notin DOMAIN fragData.users

\* d is what the cascade from document d0 must give: no user u, no journal
\* written by u, every other user and journal as in d0, nothing added
IsCascadeOf(d, d0, u) ==
    /\ DOMAIN d.users = (DOMAIN d0.users) \ {u}
    /\ \A v \in DOMAIN d.users : d.users[v] = d0.users[v]
    /\ DOMAIN d.journals = {k \in DOMAIN d0.journals : d0.journals[k].authorID # u}
    /\ \A k \in DOMAIN d.journals : d.journals[k] = d0.journals[k]

\* C5: delete_user(u) cascades.  (a) The snapshot it will write is the
\* Document of the moment with user u and the journals of u removed and all
\* else unchanged; (b) when its write succeeds the local and the remote
\* Document are that snapshot; (c) so when it is the only call made and has
\* returned True, the Document is the initial one without u and u's journals.
C5_DeleteUserCascades ==
    [][\A t \in Procs :
         /\ ( /\ th[t].pc = "idle"
              /\ th'[t].pc = "write"
              /\ th'[t].op = "delete_user" )
            => IsCascadeOf(th'[t].data, fragData, th'[t].args.user)
         /\ ( /\ InFlight(t)
              /\ th[t].op = "delete_user"
              /\ th'[t].op = "delete_user"
              /\ th[t].x = 0
              /\ th'[t].x = 1
              /\ th'[t].err = "none" )
            => (fragData' = th[t].data /\ remote' = th[t].data)
         /\ ( /\ th'[t].pc = "idle"
              /\ th'[t].op = "delete_user"
              /\ th'[t].ret = "True"
              /\ nOps' = 1 )
            => ( /\ IsCascadeOf(fragData', SeedDoc, th'[t].args.user)
                 /\ remote' = fragData' )]_vars

C5_Witness ==
    \E t \in Procs :
        /\ th[t].pc = "idle"
        /\ th[t].op = "delete_user"
        /\ th[t].ret = "True"
        /\ nOps = 1
        /\ \E k \in DOMAIN SeedDoc.journals :
              SeedDoc.journals[k].authorID = th[t].args.user /\ k \notin DOMAIN fragData.journals
        /\ \E k \in DOMAIN fragData.journals :
              fragData.journals[k].authorID # th[t].args.user

\* C6: a call made while the cache is not operational ends with the
\* not-operational error, makes no exchange and changes nothing of ScribeDB.
C6_NotOperationalGate ==
    [][\A t \in Procs :
         (~operational /\ Ends(t)) =>
            /\ th'[t].ret = "raise"
            /\ th'[t].err = "NotOperational"
            /\ th'[t].x = 0
            /\ UNCHANGED dbVars]_vars

\* C7: when setup() has failed the cache is not operational.
C7_NoPartialOperational == setupRet = "raise" => ~operational

C9_ShutDownTerminal ==
    [][shutDown' =>
         /\ ~operational'
         /\ \A t \in Threads :
               (shutDown /\ th[t].pc = "idle" /\ Ends(t)) =>
                   (th'[t].err # "none" /\ th'[t].x = 0)]_vars

\* C10: a shutdown() on a cache that is already shut down, its stream
\* disconnected, disconnects nothing, flushes nothing and changes no state.
C10_ShutdownIdempotent ==
    [][(shutDown /\ stream = "disconnected" /\ nOps' = nOps + 1 /\ UNCHANGED th)
         => UNCHANGED <<dbVars, tmVars>>]_vars

\* thread t is inside an exchange over the stream: from the readWS / writeWS
\* call to the end of the with block of _streamLock
InExchange(t) == th[t].pc \in {"w_xchg", "w_settle", "r_xchg", "r_settle"}

\* C11: in streaming mode at most one thread is inside a readWS / writeWS
\* exchange, that thread holds the stream lock, and the lock is given up only
\* at the end of the settle delay that follows the exchange, also when the
\* exchange answered an error.
C11_StreamLockHeldThroughSettle ==
    [][/\ Cardinality({t \in Threads : InExchange(t)}) <= 1
       /\ \A t \in Threads : InExchange(t) => streamLock = t
       /\ \A t \in Threads :
             (streamLock = t /\ streamLock' # t) => th[t].pc \in {"w_settle", "r_settle"}]_vars

\* the registry, the default pointer and the schedulers
registry == <<tmData, defaultProcessor, scheduler, jobs>>

\* C12: new(name, ...) and initDefault() under a name that is registered fail
\* (new returns its error string, initDefault raises), start no scheduler and
\* leave the registry, the default pointer and the processor found under the
\* name as they were.
C12_DuplicateNameRejected ==
    [][\A name \in TNames :
         ( /\ tmRet'.call \in {"new", "initDefault"}
           /\ tmRet'.name = name
           /\ name \in DOMAIN tmData )
         => /\ tmRet'.kind = (IF tmRet'.call = "new" THEN "error" ELSE "raise")
            /\ Len(scheduler') = Len(scheduler)
            /\ scheduler' = scheduler
            /\ tmData' = tmData
            /\ defaultProcessor' = defaultProcessor
            /\ name \in DOMAIN tmData'
            /\ tmData'[name].processor = getProcessorWithName(name)]_vars

C12_Witness ==
    /\ tmRet.call = "new"
    /\ tmRet.kind = "error"
    /\ tmRet.name \in DOMAIN tmData
    /\ Len(scheduler) >= 2

PeriodOf(trigger) == trigger.seconds + 60 * trigger.minutes + 3600 * trigger.hours

\* the job was submitted with an Interval trigger (not custom, immediate, date)
IsIntervalJob(job) ==
    /\ job.trigger.customAPTrigger = <<>>
    /\ ~job.trigger.immediate
    /\ job.trigger.type # "date"

\* C15: a job submitted with an Interval trigger of non-zero length runs with
\* the period seconds + 60 * minutes + 3600 * hours, 65 seconds for
\* seconds=5, minutes=1, hours=0; while its scheduler runs and has never got
\* to it late, T seconds after its submission it has run T div period times,
\* the run that is due at this very second being the one tick of tolerance.
C15_IntervalPeriod ==
    \A p \in Processors : \A i \in 1..Len(jobs[p]) :
        (IsIntervalJob(jobs[p][i]) /\ PeriodOf(jobs[p][i].trigger) > 0) =>
            /\ jobs[p][i].kind = "interval"
            /\ jobs[p][i].length = PeriodOf(jobs[p][i].trigger)
            /\ (jobs[p][i].trigger = Trigger("interval", <<5>>, <<1>>, <<0>>, <<>>, <<>>))
                  => jobs[p][i].length = 65
            /\ ( /\ scheduler[p] = "running"
                 /\ ~jobs[p][i].late
                 /\ jobs[p][i].next >= now )
               => /\ jobs[p][i].runs + (IF jobs[p][i].next = now THEN 1 ELSE 0)
                        >= (now - jobs[p][i].added) \div PeriodOf(jobs[p][i].trigger)
                  /\ jobs[p][i].runs
                        <= (now - jobs[p][i].added) \div PeriodOf(jobs[p][i].trigger)

C15_Witness ==
    \E p \in Processors : \E i \in 1..Len(jobs[p]) :
        /\ jobs[p][i].trigger = Trigger("interval", <<5>>, <<1>>, <<0>>, <<>>, <<>>)
        /\ scheduler[p] = "running"
        /\ ~jobs[p][i].late
        /\ now - jobs[p][i].added >= 130
        /\ jobs[p][i].runs = 2

\* C16: no job is registered with an Interval trigger whose seconds, minutes
\* and hours sum to 0.
C16_ZeroIntervalRejected ==
    \A p \in Processors : \A i \in 1..Len(jobs[p]) :
        IsIntervalJob(jobs[p][i]) => PeriodOf(jobs[p][i].trigger) # 0

\* C17: when a running scheduler gets to a job that is due, however late, the
\* job runs (once for all the run times that have passed); it is not dropped.
C17_LateJobStillFires ==
    [][\A p \in Processors : \A i \in 1..Len(jobs[p]) :
         ( /\ scheduler[p] = "running"
           /\ Due(p, i)
           /\ Len(jobs') = Len(jobs)
           /\ Len(jobs'[p]) = Len(jobs[p])
           /\ jobs'[p][i] # jobs[p][i] )
         => jobs'[p][i].runs = jobs[p][i].runs + 1]_vars

C17_Witness ==
    \E p \in Processors : \E i \in 1..Len(jobs[p]) :
        /\ jobs[p][i].trigger.type = "date"
        /\ jobs[p][i].late
        /\ jobs[p][i].runs = 1
        /\ now - jobs[p][i].next >= 2

C19_SerialisationLossless == back # <<>> => back[1] = entity.obj

\* the Journal of that id is in the cached Document and belongs to another
\* author than the one given
OwnedByAnother(journal_id, authorID) ==
    /\ fragment # "None"
    /\ authorID # "None"
    /\ \E k \in DOMAIN fragData.journals :
          /\ fragData.journals[k].id = journal_id
          /\ fragData.journals[k].authorID # authorID

\* C20: owner-scoped access.  A call of retrieve_journal_with_author or
\* retrieve_note_with_author whose authorID is not the authorID of the Journal
\* returns None; a call of save_note or save_entries with such an authorID
\* returns False at once, with no exchange with the remote store, and leaves
\* the local and the remote Document as they are.
C20_OwnerScopedAccess ==
    [][\A t \in Procs :
         LET called == /\ th[t].pc = "idle"
                       /\ th'[t] # th[t]
                       /\ nOps' = nOps + 1
                       /\ OwnedByAnother(th'[t].args.jid, th'[t].args.authorID)
         IN  /\ ( /\ called
                  /\ th'[t].op \in {"retrieve_journal_with_author",
                                    "retrieve_note_with_author"} )
                => ( /\ th'[t].pc = "idle"
                     /\ th'[t].ret = "None" )
             /\ ( /\ called
                  /\ th'[t].op \in {"save_note", "save_entries"} )
                => ( /\ th'[t].pc = "idle"
                     /\ th'[t].ret = "False"
                     /\ th'[t].x = 0
                     /\ fragData' = fragData
                     /\ remote' = remote )]_vars

\* a save_note and a retrieve_note_with_author by an author who does not own
\* the Journal have both returned
C20_Witness ==
    /\ th["p1"].pc = "idle"
    /\ th["p1"].op = "save_note"
    /\ th["p1"].ret = "False"
    /\ OwnedByAnother(th["p1"].args.jid, th["p1"].args.authorID)
    /\ th["p2"].pc = "idle"
    /\ th["p2"].op = "retrieve_note_with_author"
    /\ th["p2"].ret = "None"
    /\ OwnedByAnother(th["p2"].args.jid, th["p2"].args.authorID)

\* no Journal of Document d holds two Notes with the same id
NoteIdsUnique(d) ==
    \A j \in DOMAIN d.journals :
        \A i, k \in 1..Len(d.journals[j].notes) :
            d.journals[j].notes[i].id = d.journals[j].notes[k].id => i = k

\* C21: in the local and in the remote Document no Journal holds two Notes
\* with the same id.
C21_NoteIdsUnique == NoteIdsUnique(fragData) /\ NoteIdsUnique(remote)

\* thread t starts a save_note or save_entries that finds its Journal: the
\* step from the call to the Journal object it goes on to save
FindsJournal(t, op) ==
    /\ th[t].pc = "idle"
    /\ th'[t].pc = "sj_check"
    /\ th'[t].op = op

\* the Notes of Journal journal_id in the cached Document
NotesOf(journal_id) == retrieve_journal(fragData, journal_id)[1].notes

\* notes is old with the Note of id note_id replaced where it is, or added at
\* the end when old has none of that id; every other Note is as in old
IsUpsertOf(notes, old, note_id) ==
    /\ \A i \in 1..Len(old) :
          /\ i <= Len(notes)
          /\ notes[i].id = old[i].id
          /\ old[i].id # note_id => notes[i] = old[i]
    /\ IF \E i \in 1..Len(old) : old[i].id = note_id
       THEN Len(notes) = Len(old)
       ELSE Len(notes) = Len(old) + 1 /\ notes[Len(notes)].id = note_id

\* C22: save_note and save_entries upsert by id.  The Journal saved holds
\* every Note the Journal found had, each at its position and under its id
\* (replaced by a given Note of that id or unchanged), the Notes with new ids
\* after them; save_note changes or adds only the Note of the given id.
C22_UpsertById ==
    [][\A t \in Procs :
         /\ FindsJournal(t, "save_note") =>
               IsUpsertOf(th'[t].jr.notes, NotesOf(th'[t].args.jid), th'[t].args.nid)
         /\ FindsJournal(t, "save_entries") =>
               \A i \in 1..Len(NotesOf(th'[t].args.jid)) :
                   /\ i <= Len(th'[t].jr.notes)
                   /\ th'[t].jr.notes[i].id = NotesOf(th'[t].args.jid)[i].id]_vars

\* the first n calls of the scenario have been made and their outcomes taken
Made(n) == scenario.on /\ Len(scenario.taken) >= n

\* the outcome of the scenario's call number n
Outcome(n) == scenario.taken[n]

\* C23: write-through end to end.  When save_user(alice), save_journal(J1 of
\* alice) and save_note(N1, J1) have returned True in this order, the
\* retrieve_note(J1, N1) that follows returns N1 with its content, whether or
\* not a refresh has run in between; when the delete_user(alice) after it has
\* returned True as well, the retrieve_journal(J1) that follows returns None.
C23_WriteThroughEndToEnd ==
    ( /\ Made(4)
      /\ \A n \in 1..3 : Outcome(n).ret = "True" )
    => /\ Outcome(4).op = "retrieve_note"
       /\ Outcome(4).ret = "object"
       /\ Outcome(4).val = <<MkNote("n1", "c")>>
       /\ (Made(6) /\ Outcome(5).ret = "True")
             => /\ Outcome(6).op = "retrieve_journal"
                /\ Outcome(6).ret = "None"
                /\ Outcome(6).val = <<>>

\* the whole scenario has run, every mutator returned True, from an empty
\* Document and over the stream, and the refresh job has run meanwhile
C23_Witness ==
    /\ Made(6)
    /\ \A n \in {1, 2, 3, 5} : Outcome(n).ret = "True"
    /\ Outcome(4).val = <<MkNote("n1", "c")>>
    /\ Outcome(6).ret = "None"
    /\ th[Job].op = "live_reader"
    /\ mode = "WS"
    /\ "u2" \notin DOMAIN fragData.users

\* the object thread t holds from its last accessor call, as t sees it now
Observed(t) ==
    IF th[t].live THEN Retrieved(fragData, th[t].op, th[t].args) ELSE th[t].val

\* thread t holds an object an accessor returned to it
Holds(t) == th[t].pc = "idle" /\ th[t].val # <<>>

UsernamesUnique(d) ==
    \A u, v \in DOMAIN d.users : d.users[u].username = d.users[v].username => u = v

\* this step starts a request of thread t that asks for the username name
AsksUsername(t, name) ==
    /\ th[t].pc = "idle"
    /\ th'[t] # th[t]
    /\ th'[t].op \in {"create_user", "update_user"}
    /\ th'[t].args.username = <<name>>
    /\ th'[t].op = "update_user" =>
          /\ retrieve_user_by_username(fragData, th'[t].args.user) # <<>>
          /\ th'[t].args.user # name

AuthorsExist(d) ==
    \A j \in DOMAIN d.journals :
        d.journals[j].authorID \in {d.users[u].id : u \in DOMAIN d.users}

\* a delete_user(u) has returned True and no thread is in a save_user(u)
Deleted(u) ==
    /\ \E t \in Procs :
          th[t].pc = "idle" /\ th[t].op = "delete_user" /\ th[t].args.user = u
          /\ th[t].ret = "True"
    /\ \A t \in Procs : ~(th[t].op = "save_user" /\ th[t].args.user = u)

\* C26: referential integrity under every interleaving of save_user,
\* save_journal, save_note and delete_user.  Every Journal of the local and
\* of the remote Document has an authorID that is the id of a User of that
\* Document; and a User that a completed delete_user has removed does not
\* come back unless a save_user saves it again.
C26_ReferentialIntegrity ==
    [][/\ AuthorsExist(fragData')
       /\ AuthorsExist(remote')
       /\ \A u \in UIds :
             (Deleted(u) /\ Deleted(u)' /\ u \notin DOMAIN fragData.users)
                => u \notin DOMAIN fragData'.users]_vars

(***************************************************************************)
(* C27: a failed mutation leaves the cache unchanged.                       *)
(***************************************************************************)
MutatorOps == {"save_user", "delete_user", "save_journal", "delete_journal",
               "save_note", "save_entries"}

\* the step of t is the one in which the store answers the write of a mutator
Exchanges(t) ==
    /\ th[t].pc \in {"write", "w_xchg"}
    /\ th[t].op \in MutatorOps
    /\ th'[t].x = 1

\* the step of t starts the call op on an id the cached Document does not hold
StartsOnAbsent(t) ==
    /\ th[t].pc = "idle"
    /\ th'[t] # th[t]
    /\ \/ th'[t].op = "delete_user" /\ th'[t].args.user \notin DOMAIN fragData.users
       \/ th'[t].op = "delete_journal" /\ th'[t].args.jid \notin DOMAIN fragData.journals
       \/ /\ th'[t].op \in {"save_note", "save_entries"}
          /\ LookupJournal(fragData, th'[t].args.jid, th'[t].args.authorID) = <<>>

\* C27: (a) when the store does not take the write of a mutator (the local
\* Document after the step is not the snapshot sent, or the store is left as
\* it was), the step changes neither the local Document nor the store and
\* the mutator raises the write error; (b) no step of a mutator call before
\* that answer changes the local Document, so after a single failed call it
\* is the Document of before the call; (c) delete_user or delete_journal on
\* an absent id and save_note or save_entries on an absent Journal end in
\* that one step with False, no exchange with the store and no change.
C27_FailedMutationLeavesCache ==
    [][\A t \in Procs :
          /\ (Exchanges(t) /\ (fragData' # th[t].data \/ th'[t].err # "none"))
                => /\ fragData' = fragData
                   /\ remote' = remote
                   /\ th'[t].pc = "idle"
                   /\ th'[t].ret = "raise"
                   /\ th'[t].err = "Transport"
          /\ (th'[t] # th[t] /\ th'[t].op \in MutatorOps /\ th'[t].x = 0
              /\ th'[t].pc # "idle")
                => fragData' = fragData /\ remote' = remote
          /\ (nOps' = 1 /\ th'[t].op \in MutatorOps /\ th'[t].err = "Transport")
                => fragData' = SeedDoc
          /\ StartsOnAbsent(t)
                => /\ th'[t].pc = "idle"
                   /\ th'[t].ret = "False"
                   /\ th'[t].x = 0
                   /\ fragData' = fragData
                   /\ remote' = remote]_vars

\* a save_note whose write the store rejected has raised, while the other
\* caller's delete_journal of a Journal that is still cached returned True
\* before it: the cache holds what that delete left, not the failed snapshot
C27_Witness ==
    \E t \in Procs : \E u \in Procs \ {t} :
        /\ th[t].pc = "idle" /\ th[t].op = "save_note"
        /\ th[t].ret = "raise" /\ th[t].err = "Transport" /\ th[t].x = 1
        /\ th[t].data # fragData
        /\ th[u].pc = "idle" /\ th[u].op = "delete_journal" /\ th[u].ret = "True"
        /\ th[u].args.jid \notin DOMAIN fragData.journals

(***************************************************************************)
(* C28: the default pointer and the entry named "default".                  *)
(***************************************************************************)
\* the default pointer, when set, is the processor of the entry named
\* "default", whose scheduler has not been shut down
DefaultPointsAtEntry ==
    defaultProcessor # NoProcessor
        => /\ "default" \in DOMAIN tmData
           /\ defaultProcessor = tmData["default"].processor
           /\ defaultProcessor \in Processors
           /\ scheduler[defaultProcessor] # "shutdown"

\* C28: after any sequence of new, initDefault, closeThread and shutdown the
\* default pointer is set if and only if an entry named "default" is
\* registered, and when set it is that entry's processor, which is a
\* processor (no error value) whose scheduler has not been shut down.
C28_DefaultPointerConsistent ==
    /\ (defaultProcessor # NoProcessor) <=> ("default" \in DOMAIN tmData)
    /\ DefaultPointsAtEntry

(***************************************************************************)
(* C29: addJob schedules a job in the mode its trigger declares and         *)
(* returns the job's ID.                                                    *)
(***************************************************************************)
\* the step registers a job with processor p
Registers(p) ==
    /\ Len(jobs') = Len(jobs)
    /\ Len(jobs'[p]) = Len(jobs[p]) + 1

\* the job is scheduled in the one mode its trigger declares
ModeAsDeclared(job) ==
    LET trigger == job.trigger
    IN  IF trigger.customAPTrigger # <<>>
        THEN /\ job.kind = trigger.customAPTrigger[1].kind
             /\ job.length = trigger.customAPTrigger[1].length
             /\ job.kind = "date" => job.next = trigger.customAPTrigger[1].run_date
        ELSE IF trigger.immediate
        THEN job.kind = "date" /\ job.next = job.added
        ELSE IF trigger.type = "date"
        THEN /\ job.kind = "date"
             /\ trigger.triggerDate # <<>>
             /\ job.next = RunDateOf(trigger.triggerDate, job.added)
        ELSE /\ job.kind = "interval"
             /\ PeriodOf(trigger) > 0 => /\ job.length = PeriodOf(trigger)
                                         /\ job.next = job.added + PeriodOf(trigger)

\* C29: every step of addJob that registers a job registers it in the one
\* mode its trigger declares (a custom trigger as given; with no schedule
\* fields once, at the time of the call; type 'date' once, at triggerDate;
\* type 'interval' recurring with the given period) and addJob returns the
\* job's ID: it never registers a job and then raises.
C29_AddJobOneModeAndId ==
    [][\A p \in Processors :
          Registers(p) =>
             /\ ModeAsDeclared(jobs'[p][Len(jobs'[p])])
             /\ tmRet'.call = "addJob"
             /\ tmRet'.kind = "id"]_vars

(***************************************************************************)
(* C30: the order of the application's life cycle.                          *)
(***************************************************************************)
\* every scheduler constructed so far is shut down and no run of a job is
\* in progress
AllStopped ==
    /\ \A p \in Processors : scheduler[p] = "shutdown"
    /\ th[Job].pc = "idle"

\* C30: under lifespan, (a) when setup runs, the default processor is
\* registered and its scheduler runs, and the refresh job setup schedules is
\* on it; (b) the step that disconnects the stream starts with every
\* scheduler shut down and no run of live_reader in progress, and once the
\* stream is disconnected no step of live_reader is taken.
C30_LifecycleOrder ==
    [][/\ setupRet' # setupRet
          => /\ defaultProcessor \in Processors
             /\ getProcessorWithName("default") = defaultProcessor
             /\ scheduler[defaultProcessor] = "running"
             /\ setupRet' = "True"
                  => \E i \in 1..Len(jobs'[defaultProcessor]) :
                        jobs'[defaultProcessor][i].func = "live_reader"
       /\ disconnects' # disconnects => AllStopped
       /\ stream = "disconnected" => th'[Job] = th[Job] /\ AllStopped]_vars

\* the stream is disconnected after the refresh job has run, with a refresh
\* that has reached the store, while the application served
C30_Witness ==
    /\ stream = "disconnected"
    /\ shutDown
    /\ th[Job].op = "live_reader"
    /\ th[Job].pc = "idle"
    /\ th[Job].x = 1
    /\ AllStopped

=============================================================================
